---- MODULE Spec2Model ----
(***************************************************************************)
(* Indeks AI (src/Indeks.ai.py): keyword intent routing, the latest-quote  *)
(* and weekly hybrid modes, the pure language-model mode and the chat      *)
(* input handler that appends to st.session_state.messages.                *)
(*                                                                         *)
(* Modelling conventions                                                   *)
(*  - A Python str that is searched (the prompt) is a sequence of          *)
(*    one-character strings.                                               *)
(*  - A Python str that is only built, measured and sliced (responses,     *)
(*    prompts sent to the model) is a Text: a sequence of pieces, each     *)
(*    piece standing for n consecutive characters of one origin            *)
(*    (a literal of the source, a formatted number, a data string, model   *)
(*    output, the user's prompt).                                          *)
(*  - Index prices are integers (points); quotients are reduced fractions  *)
(*    [num, den]; a formatted number carries its value in hundredths.      *)
(***************************************************************************)
EXTENDS Integers, Sequences, FiniteSets, TLC

\* ------------------------------------------------------------------ bounds
\* longest utterance, in words
MaxWords ==
    3

\* longest price history the data provider returns, in rows
MaxHist ==
    8

\* user turns in a multi-turn session
MaxTurns ==
    2

\* ------------------------------------------------------- program constants
\* hist.tail(7)
TailLen ==
    7

\* chat_history[-8:]
HistoryWindow ==
    8

\* msg['content'][:500]
TruncLen ==
    500

\* len("...")
EllipsisLen ==
    3

\* len(greeting)
GreetingLen ==
    651

\* ------------------------------------------------------------ generic help
Abs(x) ==
    IF x < 0 THEN -x ELSE x

Sign(x) ==
    IF x > 0 THEN 1 ELSE IF x < 0 THEN -1 ELSE 0

RECURSIVE Gcd(_, _)
Gcd(a, b) ==
    IF b = 0 THEN a ELSE Gcd(b, a % b)

\* Python float division a / b (b # 0), kept exact as a reduced fraction
Frac(a, b) ==
    LET g == Gcd(Abs(a), Abs(b))
        s == IF b < 0 THEN -1 ELSE 1
    IN  [num |-> s * (a \div g), den |-> s * (b \div g)]

\* Python float multiplication q * k
FracMul(q, k) ==
    Frac(q.num * k, q.den)

\* an int or an integral float
Whole(a) ==
    [num |-> a, den |-> 1]

RECURSIVE SumSeq(_)
SumSeq(s) ==
    IF s = <<>> THEN 0 ELSE Head(s) + SumSeq(Tail(s))

RECURSIVE MaxSeq(_)
MaxSeq(s) ==
    IF Len(s) = 1 THEN s[1]
    ELSE LET m == MaxSeq(Tail(s)) IN IF s[1] > m THEN s[1] ELSE m

RECURSIVE MinSeq(_)
MinSeq(s) ==
    IF Len(s) = 1 THEN s[1]
    ELSE LET m == MinSeq(Tail(s)) IN IF s[1] < m THEN s[1] ELSE m

RECURSIVE NumDigits(_)
NumDigits(k) ==
    IF k < 10 THEN 1 ELSE 1 + NumDigits(k \div 10)

\* ------------------------------------------------------- number formatting
\* q rounded to the nearest multiple of 1/scale (ties to even), as the
\* integer count of such multiples: what format(x, ".2f") keeps of x
RoundTo(q, scale) ==
    LET a == Abs(q.num) * scale
        f == a \div q.den
        r == a % q.den
        m == IF 2 * r > q.den THEN f + 1
             ELSE IF 2 * r < q.den THEN f
             ELSE IF f % 2 = 0 THEN f ELSE f + 1
    IN  Sign(q.num) * m

\* number of characters of the formatted number
FmtLen(fmt, v) ==
    LET prec   == IF fmt = ",.0f" THEN 0 ELSE 2
        whole  == IF prec = 0 THEN Abs(v) ELSE Abs(v) \div 100
        digits == NumDigits(whole)
        commas == IF fmt \in {",.2f", "+,.2f", ",.0f"} THEN (digits - 1) \div 3 ELSE 0
        sign   == IF fmt \in {"+.2f", "+,.2f"} \/ v < 0 THEN 1 ELSE 0
        point  == IF prec = 0 THEN 0 ELSE 3
    IN  sign + digits + commas + point

\* f"{q:<fmt>}": one piece holding the rounded value
Fmt(fmt, q) ==
    LET v == IF fmt = ",.0f" THEN RoundTo(q, 1) ELSE RoundTo(q, 100)
    IN  <<[k |-> "num", s |-> <<fmt>>, v |-> v, n |-> FmtLen(fmt, v)]>>

\* -------------------------------------------------------------------- text
\* a literal of the source, n characters long
Lit(id, n) ==
    <<[k |-> "lit", s |-> <<id>>, v |-> 0, n |-> n]>>

\* a data string (date, day name, error cause)
Str(id, val, n) ==
    <<[k |-> "str", s |-> <<id>>, v |-> val, n |-> n]>>

\* response.content of a model invocation with purpose id
LlmText(id, n) ==
    IF n = 0 THEN <<>> ELSE <<[k |-> "llm", s |-> <<id>>, v |-> 0, n |-> n]>>

RECURSIVE TextLen(_)
TextLen(t) ==
    IF t = <<>> THEN 0 ELSE Head(t).n + TextLen(Tail(t))

\* t[:k]
RECURSIVE Slice(_, _)
Slice(t, k) ==
    IF t = <<>> \/ k <= 0 THEN <<>>
    ELSE IF Head(t).n <= k THEN <<Head(t)>> \o Slice(Tail(t), k - Head(t).n)
    ELSE <<[Head(t) EXCEPT !.n = k]>>

\* the text holds piece p entire
HasPiece(t, p) ==
    \E i \in 1..Len(t) : t[i] = p

\* ------------------------------------------------------------- utterances
Words ==
    {"apa", "itu", "Jelaskan", "IHSG", "saham", "hari", "ini", "7", "Seminggu", "bursa"}

WordChars ==
    [w \in Words |->
        CASE w = "apa" -> <<"a", "p", "a">>
          [] w = "itu" -> <<"i", "t", "u">>
          [] w = "Jelaskan" -> <<"J", "e", "l", "a", "s", "k", "a", "n">>
          [] w = "IHSG" -> <<"I", "H", "S", "G">>
          [] w = "saham" -> <<"s", "a", "h", "a", "m">>
          [] w = "hari" -> <<"h", "a", "r", "i">>
          [] w = "ini" -> <<"i", "n", "i">>
          [] w = "7" -> <<"7">>
          [] w = "Seminggu" -> <<"S", "e", "m", "i", "n", "g", "g", "u">>
          [] w = "bursa" -> <<"b", "u", "r", "s", "a">>]

\* the words of an utterance joined by single spaces
RECURSIVE JoinWords(_)
JoinWords(ws) ==
    IF ws = <<>> THEN <<>>
    ELSE IF Len(ws) = 1 THEN WordChars[ws[1]]
    ELSE WordChars[ws[1]] \o <<" ">> \o JoinWords(Tail(ws))

\* what st.chat_input can return with at most n words (never the empty string)
UtterancesUpTo(n) ==
    UNION {[1..k -> Words] : k \in 1..n}

\* str.lower(), character by character
LowerChar(c) ==
    CASE c = "A" -> "a"
      [] c = "B" -> "b"
      [] c = "C" -> "c"
      [] c = "D" -> "d"
      [] c = "E" -> "e"
      [] c = "F" -> "f"
      [] c = "G" -> "g"
      [] c = "H" -> "h"
      [] c = "I" -> "i"
      [] c = "J" -> "j"
      [] c = "K" -> "k"
      [] c = "L" -> "l"
      [] c = "M" -> "m"
      [] c = "N" -> "n"
      [] c = "O" -> "o"
      [] c = "P" -> "p"
      [] c = "Q" -> "q"
      [] c = "R" -> "r"
      [] c = "S" -> "s"
      [] c = "T" -> "t"
      [] c = "U" -> "u"
      [] c = "V" -> "v"
      [] c = "W" -> "w"
      [] c = "X" -> "x"
      [] c = "Y" -> "y"
      [] c = "Z" -> "z"
      [] OTHER -> c

lower(str) ==
    [i \in 1..Len(str) |-> LowerChar(str[i])]

\* keyword in prompt_lower
Contains(str, keyword) ==
    \E i \in 1..(Len(str) - Len(keyword) + 1) :
        SubSeq(str, i, i + Len(keyword) - 1) = keyword

\* any(keyword in prompt_lower for keyword in keywords)
AnyIn(str, keywords) ==
    \E j \in 1..Len(keywords) : Contains(str, keywords[j])

exclusion_words ==
    << <<"a", "p", "a", " ", "i", "t", "u">>,
       <<"j", "e", "l", "a", "s", "k", "a", "n">>,
       <<"d", "e", "f", "i", "n", "i", "s", "i">>,
       <<"m", "a", "k", "s", "u", "d", "n", "y", "a">>,
       <<"p", "e", "n", "g", "e", "r", "t", "i", "a", "n">>,
       <<"b", "a", "g", "a", "i", "m", "a", "n", "a", " ", "c", "a", "r", "a">>,
       <<"m", "e", "n", "g", "a", "p", "a">>,
       <<"k", "e", "n", "a", "p", "a">>,
       <<"p", "e", "r", "b", "e", "d", "a", "a", "n">> >>

data_keywords ==
    << <<"i", "h", "s", "g">>,
       <<"i", "n", "d", "e", "k", "s", " ", "h", "a", "r", "g", "a", " ", "s", "a", "h", "a", "m", " ", "g", "a", "b", "u", "n", "g", "a", "n">>,
       <<"j", "k", "s", "e">>,
       <<"b", "u", "r", "s", "a", " ", "h", "a", "r", "i", " ", "i", "n", "i">>,
       <<"p", "o", "s", "i", "s", "i", " ", "i", "h", "s", "g">>,
       <<"b", "e", "r", "a", "p", "a", " ", "i", "h", "s", "g">>,
       <<"h", "a", "r", "g", "a", " ", "i", "h", "s", "g">>,
       <<"i", "d", "x">>,
       <<"i", "n", "d", "e", "k", "s", " ", "k", "o", "m", "p", "o", "s", "i", "t">>,
       <<"b", "u", "r", "s", "a", " ", "s", "a", "h", "a", "m", " ", "i", "n", "d", "o", "n", "e", "s", "i", "a">>,
       <<"s", "a", "h", "a", "m", " ", "h", "a", "r", "i", " ", "i", "n", "i">>,
       <<"p", "a", "s", "a", "r", " ", "m", "o", "d", "a", "l", " ", "h", "a", "r", "i", " ", "i", "n", "i">>,
       <<"u", "p", "d", "a", "t", "e", " ", "i", "h", "s", "g">>,
       <<"p", "e", "r", "g", "e", "r", "a", "k", "a", "n", " ", "i", "h", "s", "g">>,
       <<"c", "l", "o", "s", "i", "n", "g", " ", "i", "h", "s", "g">>,
       <<"p", "e", "m", "b", "u", "k", "a", "a", "n", " ", "i", "h", "s", "g">>,
       <<"b", "e", "r", "i", "t", "a", " ", "i", "h", "s", "g">> >>

weekly_keywords ==
    << <<"s", "e", "m", "i", "n", "g", "g", "u">>,
       <<"m", "i", "n", "g", "g", "u", " ", "i", "n", "i">>,
       <<"7", " ", "h", "a", "r", "i">>,
       <<"m", "i", "n", "g", "g", "u", "a", "n">>,
       <<"w", "e", "e", "k", "l", "y">>,
       <<"s", "e", "m", "i", "n", "g", "g", "u", " ", "t", "e", "r", "a", "k", "h", "i", "r">>,
       <<"d", "a", "t", "a", " ", "s", "e", "m", "i", "n", "g", "g", "u">>,
       <<"t", "r", "e", "n", " ", "m", "i", "n", "g", "g", "u">>,
       <<"p", "e", "r", "g", "e", "r", "a", "k", "a", "n", " ", "s", "e", "m", "i", "n", "g", "g", "u">>,
       <<"g", "r", "a", "f", "i", "k", " ", "m", "i", "n", "g", "g", "u">>,
       <<"c", "h", "a", "r", "t", " ", "m", "i", "n", "g", "g", "u">> >>

is_ihsg_data_request(prompt) ==
    LET prompt_lower == lower(prompt)
    IN  IF AnyIn(prompt_lower, exclusion_words) THEN FALSE
        ELSE AnyIn(prompt_lower, data_keywords)

is_ihsg_weekly_request(prompt) ==
    LET prompt_lower == lower(prompt)
    IN  AnyIn(prompt_lower, weekly_keywords)

\* ------------------------------------------------------ market data provider
\* Price tapes the provider can serve: a rising, a falling and a zigzag market.
Tapes ==
    {"up", "down", "zigzag"}

\* row i of ticker.history() on a tape; date counts trading days
Row(tape, i) ==
    LET close == CASE tape = "up"   -> 7000 + 15 * i
                   [] tape = "down" -> 7200 - 11 * i
                   [] OTHER         -> 7100 + 20 * (i % 2)
    IN  [date   |-> i,
         Close  |-> close,
         Open   |-> close - 3,
         High   |-> close + 5 + 7 * (i % 3),
         Low    |-> close - 6 - 4 * ((i + 1) % 3),
         Volume |-> 1000000 + 1500 * i]

\* ticker.history(period=...): n rows, oldest first
Hist(tape, n) ==
    [i \in 1..n |-> Row(tape, i)]

\* every history of at most n rows
HistsUpTo(tapes, n) ==
    {Hist(t, k) : t \in tapes, k \in 0..n}

\* idx.strftime('%d %b %Y') / last_date.strftime('%d %B %Y')
DateStr(date, n) ==
    Str("date", date, n)

\* idx.strftime('%A') of a trading day
DayName(date) ==
    LET names == <<"Monday", "Tuesday", "Wednesday", "Thursday", "Friday">>
        lens  == <<6, 7, 9, 8, 6>>
        d     == ((date - 1) % 5) + 1
    IN  [k |-> "str", s |-> <<names[d]>>, v |-> date, n |-> lens[d]]

\* hist.tail(7)
tail(hist, n) ==
    IF Len(hist) <= n THEN hist ELSE SubSeq(hist, Len(hist) - n + 1, Len(hist))

\* Python None
None ==
    [kind |-> "None"]

\* {"error": str(e)}
ErrorDict ==
    [kind |-> "dict", error |-> Str("str(e)", 0, 24)]

\* the body of fetch_ihsg_data: hist is what the provider returned, raised
\* tells whether the provider call threw, days_ago is now - last_date in days
fetch_ihsg_data(hist, raised, days_ago) ==
    IF raised THEN ErrorDict
    ELSE IF Len(hist) < 2 THEN None
    ELSE
        LET latest_close   == hist[Len(hist)].Close
            prev_close     == hist[Len(hist) - 1].Close
            change_points  == latest_close - prev_close
            change_percent == FracMul(Frac(change_points, prev_close), 100)
            last_date      == hist[Len(hist)].date
            is_today       == days_ago = 0
        IN  [kind           |-> "dict",
             close          |-> latest_close,
             prev_close     |-> prev_close,
             change_points  |-> change_points,
             change_percent |-> change_percent,
             date           |-> DateStr(last_date, 14),
             day_name       |-> <<DayName(last_date)>>,
             status         |-> IF change_points > 0 THEN "naik"
                                ELSE IF change_points < 0 THEN "turun" ELSE "stagnan",
             is_today       |-> is_today,
             days_ago       |-> days_ago,
             market_status  |-> IF is_today THEN Lit("hari ini", 8)
                                ELSE Str("days_ago", days_ago, NumDigits(days_ago))
                                     \o Lit(" hari lalu", 10)]

\* the loop of fetch_ihsg_weekly_data over the rows, weekly_data built so far
RECURSIVE WeeklyRows(_, _)
WeeklyRows(rows, weekly_data) ==
    IF rows = <<>> THEN weekly_data
    ELSE
        LET row        == Head(rows)
            prev_close == weekly_data[Len(weekly_data)].close
            change     == IF Len(weekly_data) > 0 THEN row.Close - prev_close ELSE 0
            change_pct == IF Len(weekly_data) > 0
                          THEN FracMul(Frac(change, prev_close), 100)
                          ELSE Whole(0)
        IN  WeeklyRows(Tail(rows),
                Append(weekly_data,
                    [date       |-> DateStr(row.date, 11),
                     day        |-> <<DayName(row.date)>>,
                     close      |-> row.Close,
                     open       |-> row.Open,
                     high       |-> row.High,
                     low        |-> row.Low,
                     volume     |-> row.Volume,
                     change     |-> change,
                     change_pct |-> change_pct]))

\* the body of fetch_ihsg_weekly_data
fetch_ihsg_weekly_data(hist, raised) ==
    IF raised THEN ErrorDict
    ELSE IF hist = <<>> THEN None
    ELSE [kind |-> "list", rows |-> WeeklyRows(tail(hist, TailLen), <<>>)]

\* @st.cache_data(ttl=300): the cached value while the entry lives, else the
\* freshly computed one
NoEntry ==
    [kind |-> "NoEntry"]

cache_data(entry, fresh) ==
    IF entry = NoEntry THEN fresh ELSE entry

\* ------------------------------------------------------------ language model
SYSTEM_INSTRUCTION ==
    Lit("SYSTEM_INSTRUCTION", 658)

SystemMessage(content) ==
    [role |-> "system", content |-> content]

HumanMessage(content) ==
    [role |-> "human", content |-> content]

AIMessage(content) ==
    [role |-> "ai", content |-> content]

\* What one llm.invoke can do: raise, or return content of some length
\* (possibly empty).
LlmOutcomes ==
    {[ok |-> FALSE, len |-> 0]} \cup {[ok |-> TRUE, len |-> n] : n \in {0, 120, 600}}

\* ----------------------------------------------------------- weekly hybrid
\* WeeklyStats that takes the highest and the lowest of the close column
WeeklyStats_OfCloseColumn(weekly_data) ==
    LET latest      == weekly_data[Len(weekly_data)]
        oldest      == weekly_data[1]
        week_change == latest.close - oldest.close
        closes      == [i \in 1..Len(weekly_data) |-> weekly_data[i].close]
    IN  [week_change     |-> week_change,
         week_change_pct |-> FracMul(Frac(week_change, oldest.close), 100),
         highest         |-> MaxSeq(closes),
         lowest          |-> MinSeq(closes),
         avg_close       |-> Frac(SumSeq(closes), Len(weekly_data)),
         status          |-> IF week_change > 0 THEN "MENGUAT"
                             ELSE IF week_change < 0 THEN "MELEMAH" ELSE "STAGNAN"]

\* lines 199-205 and the status of line 214
WeeklyStats(weekly_data) ==
    LET latest      == weekly_data[Len(weekly_data)]
        oldest      == weekly_data[1]
        week_change == latest.close - oldest.close
        highest     == MaxSeq([i \in 1..Len(weekly_data) |-> weekly_data[i].high])
        lowest      == MinSeq([i \in 1..Len(weekly_data) |-> weekly_data[i].low])
    IN  [week_change     |-> week_change,
         week_change_pct |-> FracMul(Frac(week_change, oldest.close), 100),
         highest         |-> highest,
         lowest          |-> lowest,
         avg_close       |-> Frac(SumSeq([i \in 1..Len(weekly_data) |-> weekly_data[i].close]),
                                  Len(weekly_data)),
         status          |-> IF week_change > 0 THEN "MENGUAT"
                             ELSE IF week_change < 0 THEN "MELEMAH" ELSE "STAGNAN"]

\* the status text of line 214
StatusText(status) ==
    Str(status, 0, IF status = "STAGNAN" THEN 10 ELSE 9)

\* stats_text, lines 207-223
StatsText(weekly_data) ==
    LET latest == weekly_data[Len(weekly_data)]
        oldest == weekly_data[1]
        st     == WeeklyStats(weekly_data)
    IN  Lit("stats:Ringkasan", 93) \o Fmt(",.2f", Whole(oldest.close))
        \o Lit("stats: (", 2) \o oldest.date
        \o Lit("stats:Penutupan Akhir", 21) \o Fmt(",.2f", Whole(latest.close))
        \o Lit("stats: (", 2) \o latest.date
        \o Lit("stats:Perubahan Minggu", 22) \o Fmt("+,.2f", Whole(st.week_change))
        \o Lit("stats: poin (", 7) \o Fmt("+.2f", st.week_change_pct)
        \o Lit("stats:Status", 13) \o StatusText(st.status)
        \o Lit("stats:Tertinggi", 30) \o Fmt(",.2f", Whole(st.highest))
        \o Lit("stats:Terendah", 13) \o Fmt(",.2f", Whole(st.lowest))
        \o Lit("stats:Rata-rata", 14) \o Fmt(",.2f", st.avg_close)
        \o Lit("stats:Range", 10) \o Fmt(",.2f", Whole(st.highest - st.lowest))
        \o Lit("stats:---", 11)

\* one line of "Detail harian", line 234
DetailLine(d) ==
    Lit("- ", 2) \o d.date \o Lit(" (", 2) \o d.day \o Lit("): ", 3)
    \o Fmt(".2f", Whole(d.close)) \o Lit(" (", 2) \o Fmt("+.2f", Whole(d.change))
    \o Lit(" / ", 3) \o Fmt("+.2f", d.change_pct) \o Lit("%)", 2)

\* chr(10).join(lines)
RECURSIVE JoinLines(_)
JoinLines(lines) ==
    IF lines = <<>> THEN <<>>
    ELSE IF Len(lines) = 1 THEN lines[1]
    ELSE lines[1] \o Lit("chr(10)", 1) \o JoinLines(Tail(lines))

\* summary_for_ai, lines 226-234
SummaryForAi(weekly_data) ==
    LET latest == weekly_data[Len(weekly_data)]
        oldest == weekly_data[1]
        st     == WeeklyStats(weekly_data)
    IN  Lit("summary:Periode", 46) \o oldest.date \o Lit("summary: sampai ", 8) \o latest.date
        \o Lit("summary:Penutupan awal", 19) \o Fmt(".2f", Whole(oldest.close))
        \o Lit("summary:Penutupan akhir", 20) \o Fmt(".2f", Whole(latest.close))
        \o Lit("summary:Perubahan", 14) \o Fmt("+.2f", Whole(st.week_change))
        \o Lit("summary: poin (", 7) \o Fmt("+.2f", st.week_change_pct)
        \o Lit("summary:Tertinggi", 16) \o Fmt(".2f", Whole(st.highest))
        \o Lit("summary:Terendah", 12) \o Fmt(".2f", Whole(st.lowest))
        \o Lit("summary:Detail harian", 17)
        \o JoinLines([i \in 1..Len(weekly_data) |-> DetailLine(weekly_data[i])])

\* display_df, lines 190-196: one row per element of weekly_data
DisplayDf(weekly_data) ==
    [i \in 1..Len(weekly_data) |->
        LET d == weekly_data[i]
        IN  [Tanggal   |-> d.date,
             Hari      |-> d.day,
             Penutupan |-> Fmt(",.2f", Whole(d.close)),
             Perubahan |-> IF d.change # 0
                           THEN Fmt("+,.2f", Whole(d.change)) \o Lit(" (", 2)
                                \o Fmt("+.2f", d.change_pct) \o Lit("%)", 2)
                           ELSE Lit("-", 1),
             Volume    |-> Fmt(",.0f", Whole(d.volume))]]

\* WeeklyCompose whose except branch returns the placeholder alone
WeeklyCompose_PlaceholderOnly(weekly_data, llm) ==
    IF llm.ok
    THEN [kind |-> "tuple",
          text |-> LlmText("weekly", llm.len) \o Lit("result:nn", 2) \o StatsText(weekly_data)
                   \o Lit("result:Tabel Data Lengkap", 28),
          df   |-> DisplayDf(weekly_data)]
    ELSE [kind |-> "tuple",
          text |-> Lit("Analisis AI tidak tersedia saat ini.", 36),
          df   |-> <<>>]

\* lines 250-262: the invocation, its except branch and the returned tuple
WeeklyCompose(weekly_data, llm) ==
    LET ai_analysis == IF llm.ok THEN LlmText("weekly", llm.len)
                       ELSE Lit("Analisis AI tidak tersedia saat ini.", 36)
    IN  [kind |-> "tuple",
         text |-> ai_analysis \o Lit("result:nn", 2) \o StatsText(weekly_data)
                  \o Lit("result:Tabel Data Lengkap", 28),
         df   |-> DisplayDf(weekly_data)]

\* weekly_data is what fetch_ihsg_weekly_data() returned at line 182, llm the
\* outcome of the invocation of line 251.  The result records the return
\* value (a str, or a tuple of str and DataFrame) and the invocations made.
get_ihsg_weekly_data_and_format(weekly_data, llm) ==
    IF weekly_data = None \/ (weekly_data.kind = "dict" /\ "error" \in DOMAIN weekly_data)
    THEN
        LET error_msg == IF weekly_data.kind = "dict" THEN weekly_data.error
                         ELSE Lit("Data tidak tersedia", 19)
        IN  [kind    |-> "str",
             text    |-> Lit("weekly_error", 77) \o error_msg,
             invoked |-> <<>>]
    ELSE
        LET rows          == weekly_data.rows
            weekly_prompt == << SystemMessage(SYSTEM_INSTRUCTION),
                                HumanMessage(Lit("weekly_prompt:Sebagai analis pasar", 106)
                                             \o SummaryForAi(rows)
                                             \o Lit("weekly_prompt:Format", 245)) >>
            result        == WeeklyCompose(rows, llm)
        IN  [kind    |-> "tuple",
             text    |-> result.text,
             df      |-> result.df,
             invoked |-> <<weekly_prompt>>]

\* ----------------------------------------------------------- latest hybrid
\* data['status'].upper()
StatusUpper(status) ==
    Str(status, 1, IF status = "naik" THEN 4 ELSE IF status = "turun" THEN 5 ELSE 7)

\* data_text, lines 290-298
DataText(data) ==
    Lit("data_text:Tanggal Data", 46) \o data.day_name \o Lit(", ", 2) \o data.date
    \o Lit("data_text:Status Pasar", 17)
    \o (IF data.is_today THEN Lit("Data hari ini (real-time)", 25)
        ELSE Lit("Data ", 5) \o Str("days_ago", data.days_ago, NumDigits(data.days_ago))
             \o Lit(" hari lalu (bursa tutup hari ini)", 33))
    \o Lit("data_text:Penutupan", 14) \o Fmt(".2f", Whole(data.close))
    \o Lit("data_text:Perubahan", 19) \o Fmt("+.2f", Whole(data.change_points))
    \o Lit("data_text: poin (", 7) \o Fmt("+.2f", data.change_percent)
    \o Lit("data_text:Status", 13) \o StatusUpper(data.status)
    \o Lit("data_text:Penutupan sebelumnya", 25) \o Fmt(".2f", Whole(data.prev_close))
    \o Lit("data_text:Catatan", 61)

\* data_detail, lines 325-334
DataDetail(data) ==
    Lit("detail:Data Mentah", 65) \o data.day_name \o Lit(", ", 2) \o data.date
    \o Lit("detail:Penutupan", 18) \o Fmt(".2f", Whole(data.close))
    \o Lit("detail:Perubahan", 25) \o Fmt("+.2f", Whole(data.change_points))
    \o Lit("detail: poin (", 11) \o Fmt("+.2f", data.change_percent)
    \o Lit("detail:Status", 19) \o StatusUpper(data.status)
    \o Lit("detail:Data diambil", 21) \o data.market_status
    \o Lit("detail:n", 1)

\* the return of line 338
BusyFallback(data) ==
    Lit("busy:Data IHSG", 14) \o Fmt(".2f", Whole(data.close)) \o Lit("busy: (", 2)
    \o Fmt("+.2f", data.change_percent) \o Lit("busy:Sistem AI sedang sibuk", 52)

\* ErrorFallback that returns the fixed string without asking the model
ErrorFallback_NoInvoke(error_msg, llm) ==
    [kind    |-> "str",
     text    |-> Lit("Maaf, sistem sedang mengalami kendala", 150),
     invoked |-> <<>>]

\* lines 272-288: the apology prompt, its one invocation and the fixed
\* string of the except branch
ErrorFallback(error_msg, llm) ==
    LET error_prompt == << SystemMessage(SYSTEM_INSTRUCTION),
                           HumanMessage(Lit("error_prompt:gagal diambil", 60) \o error_msg
                                        \o Lit("error_prompt:Berikan respons yang sopan", 334)) >>
    IN  [kind    |-> "str",
         text    |-> IF llm.ok THEN LlmText("error", llm.len)
                     ELSE Lit("Maaf, sistem sedang mengalami kendala", 150),
         invoked |-> <<error_prompt>>]

\* data is what fetch_ihsg_data() returned at line 267, llm the outcome of
\* the one invocation the function makes (line 285 or line 323)
get_ihsg_data_and_format(data, llm) ==
    IF data = None \/ "error" \in DOMAIN data
    THEN
        LET error_msg == IF data # None
                         THEN (IF "error" \in DOMAIN data THEN data.error
                               ELSE Lit("Tidak dapat mengambil data", 26))
                         ELSE Lit("Data tidak tersedia", 19)
        IN  ErrorFallback(error_msg, llm)
    ELSE
        LET hybrid_prompt == << SystemMessage(SYSTEM_INSTRUCTION),
                                HumanMessage(Lit("hybrid_prompt:penyiar berita", 104)
                                             \o DataText(data)
                                             \o Lit("hybrid_prompt:Format respons", 854)) >>
        IN  [kind    |-> "str",
             text    |-> IF llm.ok THEN LlmText("hybrid", llm.len) \o DataDetail(data)
                         ELSE BusyFallback(data),
             invoked |-> <<hybrid_prompt>>]

\* ---------------------------------------------------------------- pure LLM
\* the prompt as a str of the conversation
PromptText(prompt) ==
    <<[k |-> "user", s |-> prompt, v |-> 0, n |-> Len(JoinWords(prompt))]>>

\* RecentHistory that keeps the first 8 entries: chat_history[:8]
RecentHistory_First8(chat_history) ==
    IF Len(chat_history) > HistoryWindow
    THEN SubSeq(chat_history, 1, HistoryWindow)
    ELSE chat_history

\* chat_history[-8:] if len(chat_history) > 8 else chat_history
RecentHistory(chat_history) ==
    IF Len(chat_history) > HistoryWindow
    THEN SubSeq(chat_history, Len(chat_history) - HistoryWindow + 1, Len(chat_history))
    ELSE chat_history

\* msg['content'][:500] + "..." if len(msg['content']) > 500 else msg['content']
Truncate(content) ==
    IF TextLen(content) > TruncLen
    THEN Slice(content, TruncLen) \o Lit("...", EllipsisLen)
    ELSE content

\* the loop of lines 348-353 over recent_history
RECURSIVE Replay(_)
Replay(recent_history) ==
    IF recent_history = <<>> THEN <<>>
    ELSE
        LET msg == Head(recent_history)
        IN  (IF msg.role = "user" THEN <<HumanMessage(msg.content)>>
             ELSE IF msg.role = "assistant" THEN <<AIMessage(Truncate(msg.content))>>
             ELSE <<>>)
            \o Replay(Tail(recent_history))

\* llm is the outcome of the invocation of line 360
get_llm_response(prompt, chat_history, llm) ==
    LET full_prompt == PromptText(prompt) \o Lit("PENTING: Berikan jawaban yang LENGKAP", 105)
        messages    == <<SystemMessage(SYSTEM_INSTRUCTION)>>
                       \o Replay(RecentHistory(chat_history))
                       \o <<HumanMessage(full_prompt)>>
    IN  [kind    |-> "str",
         text    |-> IF llm.ok THEN LlmText("edu", llm.len)
                     ELSE Lit("Maaf, terjadi kesalahan dalam memproses permintaan Anda", 125),
         invoked |-> <<messages>>]

\* ------------------------------------------------------------------- state
VARIABLES
    messages,       \* st.session_state.messages
    weeklyCache,    \* the st.cache_data entry of fetch_ihsg_weekly_data
    latestCache,    \* the st.cache_data entry of fetch_ihsg_data
    turn,           \* what the last run of the chat input handler did
    turns,          \* chat inputs handled so far
    cleared         \* whether "Hapus Riwayat Chat" was ever pressed

vars ==
    <<messages, weeklyCache, latestCache, turn, turns, cleared>>

UserMsg(prompt) ==
    [role |-> "user", content |-> PromptText(prompt)]

AssistantMsg(content) ==
    [role |-> "assistant", content |-> content]

\* lines 367-392
Greeting ==
    AssistantMsg(Lit("greeting", GreetingLen))

NoTurn ==
    [mode |-> "none"]

\* Python truthiness of what fetch_ihsg_weekly_data returns: None is false,
\* the error dict and the (never empty) list are true
Truthy(weekly_data) ==
    weekly_data # None

\* lines 522-527: the dict comprehension over the second fetch raises
\* TypeError when it iterates the keys of the error dict
ChartRaises(weekly_data) ==
    Truthy(weekly_data) /\ weekly_data.kind = "dict"

\* what a fresh run of the cached function bodies can return
FreshWeekly(hists) ==
    {fetch_ihsg_weekly_data(h, FALSE) : h \in hists} \cup {fetch_ihsg_weekly_data(<<>>, TRUE)}

FreshLatest(hists) ==
    {fetch_ihsg_data(h, FALSE, d) : h \in hists, d \in {0, 2}}
        \cup {fetch_ihsg_data(<<>>, TRUE, 0)}

\* lines 539-542: the assistant entry appended at the end of the handler
Finish(store, result) ==
    Append(store, AssistantMsg(result.text))

\* lines 515-530
WeeklyBranch(prompt, store, hists, llms) ==
    \E fresh \in (IF weeklyCache = NoEntry THEN FreshWeekly(hists) ELSE {weeklyCache}) :
        LET weekly_data == cache_data(weeklyCache, fresh)
        IN  \/ /\ weekly_data = None \/ weekly_data.kind = "dict"
               /\ LET result == get_ihsg_weekly_data_and_format(weekly_data, CHOOSE l \in llms : TRUE)
                  IN  /\ turn' = [mode |-> "weekly", prompt |-> prompt, fetched |-> <<"weekly">>,
                                  data |-> weekly_data, result |-> result, raised |-> FALSE]
                      /\ messages' = Finish(store, result)
                      /\ weeklyCache' = weekly_data
            \/ /\ weekly_data # None /\ weekly_data.kind = "list"
               /\ \E llm \in llms, expired \in BOOLEAN :
                    \E again \in (IF expired THEN FreshWeekly(hists) ELSE {weekly_data}) :
                        LET result == get_ihsg_weekly_data_and_format(weekly_data, llm)
                            raised == ChartRaises(again)
                        IN  /\ turn' = [mode |-> "weekly", prompt |-> prompt,
                                        fetched |-> <<"weekly", "weekly">>,
                                        data |-> weekly_data, llm |-> llm,
                                        result |-> result, raised |-> raised]
                            /\ messages' = IF raised THEN store ELSE Finish(store, result)
                            /\ weeklyCache' = again

\* lines 532-534
LatestBranch(prompt, store, hists, llms) ==
    \E fresh \in (IF latestCache = NoEntry THEN FreshLatest(hists) ELSE {latestCache}) :
        \E llm \in llms :
            LET data   == cache_data(latestCache, fresh)
                result == get_ihsg_data_and_format(data, llm)
            IN  /\ turn' = [mode |-> "latest", prompt |-> prompt, fetched |-> <<"latest">>,
                            data |-> data, llm |-> llm, result |-> result, raised |-> FALSE]
                /\ messages' = Finish(store, result)
                /\ latestCache' = data

\* lines 535-537
EducationalBranch(prompt, store, llms) ==
    \E llm \in llms :
        LET result == get_llm_response(prompt, store, llm)
        IN  /\ turn' = [mode |-> "edu", prompt |-> prompt, fetched |-> <<>>,
                        chat_history |-> store, llm |-> llm, result |-> result,
                        raised |-> FALSE]
            /\ messages' = Finish(store, result)

\* Route with the latest-quote test tried before the weekly test
Route_LatestFirst(prompt) ==
    IF is_ihsg_data_request(prompt) THEN "latest"
    ELSE IF is_ihsg_weekly_request(prompt) THEN "weekly"
    ELSE "edu"

\* the order of the tests of lines 515, 532 and 535
Route(prompt) ==
    IF is_ihsg_weekly_request(prompt) THEN "weekly"
    ELSE IF is_ihsg_data_request(prompt) THEN "latest"
    ELSE "edu"

\* the chat input handler, lines 506-542, for one submitted prompt
ChatInput(prompts, hists, llms) ==
    \E prompt \in prompts :
        LET store == Append(messages, UserMsg(prompt))
            mode  == Route(JoinWords(prompt))
        IN  /\ CASE mode = "weekly" ->
                      WeeklyBranch(prompt, store, hists, llms) /\ UNCHANGED latestCache
                 [] mode = "latest" ->
                      LatestBranch(prompt, store, hists, llms) /\ UNCHANGED weeklyCache
                 [] OTHER ->
                      EducationalBranch(prompt, store, llms)
                      /\ UNCHANGED <<weeklyCache, latestCache>>
            /\ turns' = turns + 1
            /\ UNCHANGED cleared

\* lines 493-495; the rerun finds "messages" in the session state and adds
\* no greeting
ClearChat ==
    /\ messages' = <<>>
    /\ cleared' = TRUE
    /\ turn' = NoTurn
    /\ UNCHANGED <<weeklyCache, latestCache, turns>>

\* ttl=300 of line 102 elapses
ExpireWeekly ==
    /\ weeklyCache # NoEntry
    /\ weeklyCache' = NoEntry
    /\ UNCHANGED <<messages, latestCache, turn, turns, cleared>>

\* ttl=300 of line 55 elapses
ExpireLatest ==
    /\ latestCache # NoEntry
    /\ latestCache' = NoEntry
    /\ UNCHANGED <<messages, weeklyCache, turn, turns, cleared>>

\* the state after the first script run
Init ==
    /\ messages = <<Greeting>>
    /\ weeklyCache = NoEntry
    /\ latestCache = NoEntry
    /\ turn = NoTurn
    /\ turns = 0
    /\ cleared = FALSE

\* ------------------------------------------------- a session of a few turns
SessionPrompts ==
    {<<"apa", "itu", "IHSG">>, <<"IHSG", "hari", "ini">>, <<"IHSG", "Seminggu">>}

SessionHists ==
    {Hist("up", 3)}

SessionLlms ==
    {[ok |-> FALSE, len |-> 0], [ok |-> TRUE, len |-> 501]}

Turn ==
    /\ turns < MaxTurns
    /\ ChatInput(SessionPrompts, SessionHists, SessionLlms)

Next ==
    \/ Turn
    \/ ClearChat
    \/ ExpireWeekly
    \/ ExpireLatest

Spec ==
    Init /\ [][Next]_vars

\* -------------------------------------- one turn over every short utterance
RouteHists ==
    {Hist("up", 3)}

RouteLlms ==
    {[ok |-> FALSE, len |-> 0], [ok |-> TRUE, len |-> 120]}

RouteTurn ==
    /\ turns = 0
    /\ ChatInput(UtterancesUpTo(MaxWords), RouteHists, RouteLlms)

NextRoute ==
    \/ RouteTurn
    \/ ExpireWeekly
    \/ ExpireLatest

SpecRoute ==
    Init /\ [][NextRoute]_vars

\* --------------------------- one turn per mode over every fetch/model outcome
ModePrompts ==
    {<<"apa", "itu", "IHSG">>, <<"IHSG", "hari", "ini">>, <<"IHSG", "Seminggu">>}

ModeTurn ==
    /\ turns = 0
    /\ ChatInput(ModePrompts, HistsUpTo(Tapes, MaxHist), LlmOutcomes)

NextMode ==
    \/ ModeTurn
    \/ ExpireWeekly
    \/ ExpireLatest

SpecMode ==
    Init /\ [][NextMode]_vars

\* ------------------------ an educational turn on top of a longer conversation
\* longest conversation, in completed exchanges, the turn starts from
MaxExchanges ==
    4

\* one completed exchange of an earlier turn: an educational one with a reply
\* of 500 or of 501 characters or with the fixed apology, and a latest-quote
\* one with a reply of 500 characters and the raw-data footer
Exchanges ==
    {<<UserMsg(<<"apa", "itu", "IHSG">>), AssistantMsg(LlmText("edu", n))>> : n \in {500, 501}}
    \cup {<<UserMsg(<<"apa", "itu", "IHSG">>),
            AssistantMsg(get_llm_response(<<"apa", "itu", "IHSG">>, <<>>,
                                          [ok |-> FALSE, len |-> 0]).text)>>}
    \cup {<<UserMsg(<<"IHSG", "hari", "ini">>),
            AssistantMsg(get_ihsg_data_and_format(fetch_ihsg_data(Hist("up", 2), FALSE, 0),
                                                  [ok |-> TRUE, len |-> 500]).text)>>}

RECURSIVE Flatten(_)
Flatten(pairs) ==
    IF pairs = <<>> THEN <<>> ELSE Head(pairs) \o Flatten(Tail(pairs))

\* the stores k exchanges can leave, with the greeting or after a reset
StoresAfter(k) ==
    {start \o Flatten(p) : start \in {<<Greeting>>, <<>>}, p \in [1..k -> Exchanges]}

InitLLM ==
    /\ \E k \in 0..MaxExchanges :
        /\ messages \in StoresAfter(k)
        /\ turns = k
    /\ cleared = (messages = <<>> \/ messages[1] # Greeting)
    /\ weeklyCache = NoEntry
    /\ latestCache = NoEntry
    /\ turn = NoTurn

LlmPrompts ==
    {<<"apa", "itu", "IHSG">>, <<"saham">>}

LlmTurn ==
    /\ turn = NoTurn
    /\ ChatInput(LlmPrompts, RouteHists, LlmOutcomes)

NextLLM ==
    \/ LlmTurn

SpecLLM ==
    InitLLM /\ [][NextLLM]_vars

\* ------------------------------------------- the statistics of a weekly series
\* daily rows the provider can serve
StatRows ==
    {[date |-> 0, Close |-> 7000, Open |-> 6995, High |-> 7010, Low |-> 6990, Volume |-> 1000000],
     [date |-> 0, Close |-> 7100, Open |-> 7090, High |-> 7130, Low |-> 7080, Volume |-> 1200000],
     [date |-> 0, Close |-> 7000, Open |-> 7020, High |-> 7150, Low |-> 6950, Volume |-> 900000]}

\* every history of 1..n such rows, dated by trading day
StatHists(n) ==
    UNION {{[i \in 1..k |-> [h[i] EXCEPT !.date = i]] : h \in [1..k -> StatRows]} : k \in 1..n}

InitStats ==
    /\ \E h \in StatHists(MaxHist) :
        turn = [mode |-> "stats", weekly_data |-> fetch_ihsg_weekly_data(h, FALSE).rows,
                calls |-> 0]
    /\ messages = <<Greeting>>
    /\ weeklyCache = NoEntry
    /\ latestCache = NoEntry
    /\ turns = 0
    /\ cleared = FALSE

\* lines 199-205 run on the series, a first and a second time
Summarize ==
    /\ turn.mode = "stats"
    /\ turn.calls < 2
    /\ turn' = [mode |-> "stats", weekly_data |-> turn.weekly_data,
                calls |-> turn.calls + 1, stats |-> WeeklyStats(turn.weekly_data)]
    /\ UNCHANGED <<messages, weeklyCache, latestCache, turns, cleared>>

NextStats ==
    \/ Summarize

SpecStats ==
    InitStats /\ [][NextStats]_vars

\* ------------------------------------------------------------------ claims
\* the lower-cased utterance carries one of the markers at some position
HasMarker(prompt, markers) ==
    LET text == lower(JoinWords(prompt))
    IN  \E j \in 1..Len(markers) :
            \E i \in 1..Len(text) :
                /\ i + Len(markers[j]) - 1 <= Len(text)
                /\ \A c \in 1..Len(markers[j]) : text[i + c - 1] = markers[j][c]

\* the fetch returned None or an error record
FetchFailed(data) ==
    data = None \/ (data.kind = "dict" /\ "error" \in DOMAIN data)

\* a handler run has happened
Handled ==
    turn.mode \in {"weekly", "latest", "edu"}

\* the human message of invocation i of the turn
HumanOf(i) ==
    turn.result.invoked[i][Len(turn.result.invoked[i])].content

\* C1 (as claimed): every utterance with an educational marker is routed to
\* Educational mode, whatever other markers it has, and no data fetch is made.
C1_EducationalMarkerWins ==
    (Handled /\ HasMarker(turn.prompt, exclusion_words))
        => (turn.mode = "edu" /\ turn.fetched = <<>>)

\* C2: every utterance with a weekly-range marker and no educational marker
\* is routed to weekly mode, also when it has a latest-quote marker and
\* wherever the markers stand: only the weekly fetch is made, and the
\* response is the weekly mode's.
C2_WeeklyBeforeLatest ==
    (Handled /\ HasMarker(turn.prompt, weekly_keywords)
             /\ ~HasMarker(turn.prompt, exclusion_words))
        => /\ turn.mode = "weekly"
           /\ turn.fetched # <<>>
           /\ \A i \in 1..Len(turn.fetched) : turn.fetched[i] = "weekly"
           /\ turn.result = get_ihsg_weekly_data_and_format(turn.data,
                                IF "llm" \in DOMAIN turn THEN turn.llm
                                ELSE [ok |-> FALSE, len |-> 0])

\* C2 witness: a weekly turn whose utterance has a latest-quote marker before
\* its weekly marker
C2_Witness ==
    /\ Handled
    /\ turn.mode = "weekly"
    /\ Len(turn.prompt) = 3
    /\ HasMarker(<<turn.prompt[1]>>, data_keywords)
    /\ HasMarker(<<turn.prompt[3]>>, weekly_keywords)
    /\ ~HasMarker(turn.prompt, exclusion_words)

\* C3 (as claimed): in every mode and for every fetch and model outcome the
\* mode function returns a non-empty response text.
C3_ResponseNeverEmpty ==
    Handled => (turn.result.kind \in {"str", "tuple"} /\ TextLen(turn.result.text) > 0)

RefPeriodChange(series) ==
    series[Len(series)].close - series[1].close

RefPeriodChangePercent(series) ==
    Frac(RefPeriodChange(series) * 100, series[1].close)

\* C5: in Weekly mode with fetched bars, when the model invocation fails the
\* result is a tuple whose text is the fixed placeholder sentence followed by
\* the statistics block, which shows the period change percent of the fetched
\* bars (two decimals, signed), and whose table has one row per fetched bar.
C5_WeeklyKeepsDataWithoutModel ==
    (Handled /\ turn.mode = "weekly" /\ ~FetchFailed(turn.data) /\ ~turn.llm.ok)
        => LET bars == turn.data.rows
               text == turn.result.text
           IN  /\ turn.result.kind = "tuple"
               /\ text[1] = Lit("Analisis AI tidak tersedia saat ini.", 36)[1]
               /\ \E i \in 2..Len(text) :
                    /\ text[i] = Lit("stats:Ringkasan", 93)[1]
                    /\ \E j \in (i + 1)..Len(text) :
                         /\ text[j] = Fmt("+.2f", RefPeriodChangePercent(bars))[1]
                         /\ text[j - 1] = Lit("stats: poin (", 7)[1]
                         /\ \E e \in (j + 1)..Len(text) : text[e] = Lit("stats:---", 11)[1]
               /\ Len(turn.result.df) = Len(bars)
               /\ \A i \in 1..Len(bars) :
                    /\ turn.result.df[i].Tanggal = bars[i].date
                    /\ turn.result.df[i].Penutupan = Fmt(",.2f", Whole(bars[i].close))

\* C5 witness: a weekly turn over seven bars with a non-zero period change
\* whose narration invocation failed
C5_Witness ==
    /\ Handled
    /\ turn.mode = "weekly"
    /\ ~FetchFailed(turn.data)
    /\ ~turn.llm.ok
    /\ Len(turn.data.rows) = TailLen
    /\ RefPeriodChange(turn.data.rows) # 0
    /\ Len(turn.result.df) = TailLen

\* C6 (as claimed): in Latest mode with a fetched quote the text holds the
\* close, the change in points and the change percent, whether the model
\* invocation succeeds or fails.
C6_LatestKeepsAllNumbers ==
    (Handled /\ turn.mode = "latest" /\ ~FetchFailed(turn.data))
        => /\ HasPiece(turn.result.text, Fmt(".2f", Whole(turn.data.close))[1])
           /\ HasPiece(turn.result.text, Fmt("+.2f", Whole(turn.data.change_points))[1])
           /\ HasPiece(turn.result.text, Fmt("+.2f", turn.data.change_percent)[1])

\* C9 (as claimed): a weekly series of fewer than 2 bars is handled as a fetch
\* failure: a textual fallback, no statistics block, no table.
C9_ShortSeriesIsFailure ==
    (Handled /\ turn.mode = "weekly" /\ turn.data # None /\ turn.data.kind = "list"
             /\ Len(turn.data.rows) < 2)
        => /\ turn.result.kind = "str"
           /\ ~HasPiece(turn.result.text, Lit("stats:Ringkasan", 93)[1])

\* C7 (as claimed): without a reset the store holds the greeting and, per
\* turn handled, the user's message followed by one assistant message.
C7_TwoEntriesPerTurn ==
    ~cleared
        => /\ Len(messages) = 1 + 2 * turns
           /\ messages[1] = Greeting
           /\ \A i \in 2..Len(messages) :
                messages[i].role = (IF i % 2 = 0 THEN "user" ELSE "assistant")

\* the piece of text t that holds character number c
RECURSIVE PieceAt(_, _)
PieceAt(t, c) ==
    IF c <= Head(t).n THEN Head(t) ELSE PieceAt(Tail(t), c - Head(t).n)

\* text a is the first TextLen(a) characters of text b
IsPrefix(a, b) ==
    /\ TextLen(a) <= TextLen(b)
    /\ \A c \in 1..TextLen(a) :
        LET pa == PieceAt(a, c)
            pb == PieceAt(b, c)
        IN  pa.k = pb.k /\ pa.s = pb.s /\ pa.v = pb.v

RefHigh(series) ==
    CHOOSE m \in {series[i].high : i \in 1..Len(series)} :
        \A i \in 1..Len(series) : series[i].high <= m

RefLow(series) ==
    CHOOSE m \in {series[i].low : i \in 1..Len(series)} :
        \A i \in 1..Len(series) : m <= series[i].low

RECURSIVE RefCloseSum(_, _)
RefCloseSum(series, n) ==
    IF n = 0 THEN 0 ELSE RefCloseSum(series, n - 1) + series[n].close

\* C10: for every series of 2 to 7 bars, oldest first, the statistics of
\* Weekly mode are the reference ones: change = last close - first close,
\* percent = change / first close * 100, highest and lowest over the high and
\* the low fields, average = mean close, label MENGUAT / MELEMAH / STAGNAN as
\* the change is positive / negative / zero; a second computation gives the
\* same.
C10_WeeklyStatsAreReference ==
    (turn.mode = "stats" /\ turn.calls > 0
        /\ Len(turn.weekly_data) >= 2 /\ Len(turn.weekly_data) <= 7)
        => LET series == turn.weekly_data
               st     == turn.stats
           IN  /\ st.week_change = RefPeriodChange(series)
               /\ st.week_change_pct.num * series[1].close
                    = RefPeriodChange(series) * 100 * st.week_change_pct.den
               /\ st.highest = RefHigh(series)
               /\ st.lowest = RefLow(series)
               /\ st.avg_close.num * Len(series)
                    = RefCloseSum(series, Len(series)) * st.avg_close.den
               /\ st.avg_close.den > 0 /\ st.week_change_pct.den > 0
               /\ (st.status = "MENGUAT") = (RefPeriodChange(series) > 0)
               /\ (st.status = "MELEMAH") = (RefPeriodChange(series) < 0)
               /\ (st.status = "STAGNAN") = (RefPeriodChange(series) = 0)

\* C10 witness: a series of seven bars, computed twice, that fell over the
\* period while its highest high is not at either end
C10_Witness ==
    /\ turn.mode = "stats"
    /\ turn.calls = 2
    /\ Len(turn.weekly_data) = 7
    /\ turn.stats.week_change < 0
    /\ turn.stats.highest > turn.weekly_data[1].high
    /\ turn.stats.highest > turn.weekly_data[7].high

\* C11 (as claimed): in an Educational turn the one invocation is sent the
\* persona instruction, then the last 8 (or all, if fewer) entries the store
\* had before the new utterance, oldest first, then the new utterance, which
\* is sent once; no data fetch is made.
C11_UtteranceSentOnce ==
    (Handled /\ turn.mode = "edu")
        => LET sent    == turn.result.invoked[1]
               prior   == SubSeq(turn.chat_history, 1, Len(turn.chat_history) - 1)
               replay  == SubSeq(sent, 2, Len(sent) - 1)
               skipped == Len(prior) - Len(replay)
           IN  /\ Len(turn.result.invoked) = 1
               /\ turn.fetched = <<>>
               /\ sent[1] = SystemMessage(SYSTEM_INSTRUCTION)
               /\ sent[Len(sent)].role = "human"
               /\ sent[Len(sent)].content[1] = PromptText(turn.prompt)[1]
               /\ Len(replay) = (IF Len(prior) > 8 THEN 8 ELSE Len(prior))
               /\ \A i \in 1..Len(replay) :
                    /\ skipped + i \in 1..Len(prior)
                    /\ replay[i].role
                         = (IF prior[skipped + i].role = "user" THEN "human" ELSE "ai")
                    /\ prior[skipped + i].role = "user"
                         => replay[i].content = prior[skipped + i].content

====
